---- MODULE Spec2Model ----
(***************************************************************************)
(* A model of scripts/scrape_ebird.py: the record extraction pipeline      *)
(* (parse_coordinates_from_url, extract_sighting_data, validate_sighting), *)
(* the login handler, the retry loop of scrape_alerts, the envelope        *)
(* builder create_output_json and the run main().                          *)
(*                                                                         *)
(* Conventions.  Python's None is the empty tuple <<>> and a value that    *)
(* may be None is a tuple of length at most one (Some(v) = <<v>>).  Text   *)
(* that the code only copies is a TLA+ string; text that the code parses   *)
(* (attribute values handed to float(), map-link URLs searched by the      *)
(* regular expression) is a sequence of one-character strings.  A float is *)
(* an integer number of thousandths.                                       *)
(*                                                                         *)
(* Every awaited call on the browser, the context, the page and a card,    *)
(* and every file-system call of main, may raise; async_playwright(),      *)
(* context.close() and browser.close() are taken to return.                *)
(***************************************************************************)
EXTENDS Integers, Sequences, FiniteSets, TLC

None == <<>>

Some(v) == <<v>>

IsNone(o) == o = <<>>

\* The value inside a non-None option.
The(o) == o[1]

(***************************************************************************)
(* Bounds of the model.                                                    *)
(***************************************************************************)
\* Longest list of cards page.query_selector_all hands back.
MaxCards == 2

(***************************************************************************)
(* Program constants.                                                      *)
(***************************************************************************)
\* scrape_alerts(page, max_retries=3)
max_retries == 3

\* The sentinel used as default and as rejection trigger.
Unknown == "Unknown"

(***************************************************************************)
(* float(): the text accepted is [+-]digits[.digits]; anything else        *)
(* raises ValueError.  The value is kept in thousandths.                   *)
(***************************************************************************)
Digits == {"0", "1", "2", "3", "4", "5", "6", "7", "8", "9"}

DigitVal(c) ==
  CASE c = "0" -> 0 [] c = "1" -> 1 [] c = "2" -> 2 [] c = "3" -> 3
    [] c = "4" -> 4 [] c = "5" -> 5 [] c = "6" -> 6 [] c = "7" -> 7
    [] c = "8" -> 8 [] c = "9" -> 9

RECURSIVE DigitsEnd(_, _)
\* The index just past the longest run of digits of s that starts at i.
DigitsEnd(s, i) ==
  IF i <= Len(s) /\ s[i] \in Digits THEN DigitsEnd(s, i + 1) ELSE i

RECURSIVE NatOf(_)
\* The number a non-empty run of digits denotes.
NatOf(ds) ==
  IF ds = <<>> THEN 0 ELSE 10 * NatOf(SubSeq(ds, 1, Len(ds) - 1)) + DigitVal(ds[Len(ds)])

\* The fraction digits fs as thousandths (three places are kept).
Thousandths(fs) ==
  LET d(k) == IF k <= Len(fs) THEN DigitVal(fs[k]) ELSE 0
  IN 100 * d(1) + 10 * d(2) + d(3)

\* Whether float(s) returns rather than raises.
FloatOk(s) ==
  LET i == IF s # <<>> /\ s[1] \in {"-", "+"} THEN 2 ELSE 1
      k == DigitsEnd(s, i)
  IN /\ k > i
     /\ \/ k = Len(s) + 1
        \/ /\ k <= Len(s)
           /\ s[k] = "."
           /\ DigitsEnd(s, k + 1) > k + 1
           /\ DigitsEnd(s, k + 1) = Len(s) + 1

\* float(s) for a text FloatOk accepts.
Float(s) ==
  LET neg == s[1] = "-"
      i == IF s[1] \in {"-", "+"} THEN 2 ELSE 1
      k == DigitsEnd(s, i)
      whole == NatOf(SubSeq(s, i, k - 1))
      frac == IF k <= Len(s) THEN Thousandths(SubSeq(s, k + 1, Len(s))) ELSE 0
      mag == 1000 * whole + frac
  IN IF neg THEN 0 - mag ELSE mag

(***************************************************************************)
(* parse_coordinates_from_url: re.search of                                *)
(*   [@q=](-?\d+\.\d+),(-?\d+\.\d+)                                        *)
(* The character class matches ONE of '@', 'q', '='.  Each \d+ is followed *)
(* by a non-digit of the pattern (or ends it), so the greedy match is the  *)
(* longest run of digits and no backtracking changes the outcome.          *)
(***************************************************************************)
\* Matches -?\d+\.\d+ at index i of s: the index just past the match, 0 if none.
MatchNumber(s, i) ==
  LET j == IF i <= Len(s) /\ s[i] = "-" THEN i + 1 ELSE i
      k == DigitsEnd(s, j)
  IN IF k = j \/ k > Len(s) \/ s[k] # "." THEN 0
     ELSE IF DigitsEnd(s, k + 1) = k + 1 THEN 0 ELSE DigitsEnd(s, k + 1)

\* Whether the whole pattern matches with its first character at index i.
MatchAt(s, i) ==
  /\ i <= Len(s)
  /\ s[i] \in {"@", "q", "="}
  /\ MatchNumber(s, i + 1) # 0
  /\ MatchNumber(s, i + 1) <= Len(s)
  /\ s[MatchNumber(s, i + 1)] = ","
  /\ MatchNumber(s, MatchNumber(s, i + 1) + 1) # 0

\* The two groups of the match that starts at i.
GroupsAt(s, i) ==
  LET e1 == MatchNumber(s, i + 1)
      e2 == MatchNumber(s, e1 + 1)
  IN <<SubSeq(s, i + 1, e1 - 1), SubSeq(s, e1 + 1, e2 - 1)>>

\* url is None or Some(text); the result is None or Some(<<lat, lng>>).
parse_coordinates_from_url(url) ==
  IF IsNone(url) \/ The(url) = <<>> THEN None
  ELSE LET s == The(url)
           hits == {i \in 1..Len(s) : MatchAt(s, i)}
       IN IF hits = {} THEN None
          ELSE LET i == CHOOSE h \in hits : \A g \in hits : h <= g
                   g == GroupsAt(s, i)
               IN Some(<<Float(g[1]), Float(g[2])>>)

(***************************************************************************)
(* Cards.  A card is what the page-query capability answers for it:        *)
(*   species .. rarity  the first element a field's selector list matches, *)
(*                      as Some(inner_text), or None when nothing matches; *)
(*   checklist, map     Some(href) of the link, or None without a link;    *)
(*   lat, lng           get_attribute("data-lat" / "data-lng"): None or    *)
(*                      Some(text);                                        *)
(*   raises             an element query, inner_text or get_attribute of   *)
(*                      this card raises.                                  *)
(***************************************************************************)
\* str.strip() on the texts of the model.
Strip(t) ==
  CASE t = " " -> ""
    [] t = " 1 May " -> "1 May"
    [] t = " RARE " -> "RARE"
    [] t = " rare " -> "rare"
    [] OTHER -> t

\* str.lower() on the texts of the model.
Lower(t) ==
  CASE t = " RARE " -> " rare "
    [] t = "RARE" -> "rare"
    [] t = "Review" -> "review"
    [] OTHER -> t

\* The hrefs of the model for which href.startswith("http") holds.
HttpHrefs == {"https://ebird.org/checklist/S2"}

\* f"https://ebird.org{href}" if href and not href.startswith("http") else href
AbsoluteUrl(href) ==
  IF href # "" /\ href \notin HttpHrefs THEN "https://ebird.org" \o href ELSE href

\* float(attr) if attr else None, for an attribute whose text float() accepts.
AttrFloat(attr) ==
  IF IsNone(attr) \/ The(attr) = <<>> THEN None ELSE Some(Float(The(attr)))

\* Whether float() raises ValueError on a (truthy) attribute value.
AttrRaises(attr) ==
  ~IsNone(attr) /\ The(attr) # <<>> /\ ~FloatOk(The(attr))

\* hashlib.md5(id_string.encode()).hexdigest()[:12] of the concatenation.
Md5Id(common, location, date) == <<"md5", common \o location \o date>>

\* Lines 118-131: <<latitude, longitude>> of a card whose attributes parse.
Coordinates(card) ==
  LET lat == AttrFloat(card.lat)
      lng == AttrFloat(card.lng)
      coords == IF IsNone(card.map) THEN None ELSE parse_coordinates_from_url(card.map)
  IN IF IsNone(lat) /\ ~IsNone(coords)
       THEN <<Some(The(coords)[1]), Some(The(coords)[2])>>
       ELSE <<lat, lng>>

\* Mutant: a card without a location element gets the empty text for it.
extract_sighting_data_blank(card) ==
  IF card.raises \/ AttrRaises(card.lat) \/ AttrRaises(card.lng) THEN None
  ELSE LET text(e, default) == IF IsNone(e) THEN default ELSE The(e)
           common == text(card.species, Unknown)
           location == text(card.location, "")
           date == Strip(text(card.date, ""))
       IN [species_common_name |-> common,
           species_scientific_name |-> text(card.scientific, ""),
           location |-> location,
           date |-> date,
           time |-> text(card.time, ""),
           observer |-> text(card.observer, Unknown),
           count |-> text(card.count, "1"),
           rarity_level |-> Strip(Lower(text(card.rarity, "notable"))),
           checklist_url |-> IF IsNone(card.checklist) THEN ""
                             ELSE AbsoluteUrl(The(card.checklist)),
           latitude |-> Coordinates(card)[1],
           longitude |-> Coordinates(card)[2],
           id |-> Md5Id(common, location, date)]

\* The record of a card, or None ("no record") when anything inside raised.
extract_sighting_data(card) ==
  IF card.raises \/ AttrRaises(card.lat) \/ AttrRaises(card.lng) THEN None
  ELSE LET text(e, default) == IF IsNone(e) THEN default ELSE The(e)
           common == text(card.species, Unknown)
           location == text(card.location, Unknown)
           date == Strip(text(card.date, ""))
       IN [species_common_name |-> common,
           species_scientific_name |-> text(card.scientific, ""),
           location |-> location,
           date |-> date,
           time |-> text(card.time, ""),
           observer |-> text(card.observer, Unknown),
           count |-> text(card.count, "1"),
           rarity_level |-> Strip(Lower(text(card.rarity, "notable"))),
           checklist_url |-> IF IsNone(card.checklist) THEN ""
                             ELSE AbsoluteUrl(The(card.checklist)),
           latitude |-> Coordinates(card)[1],
           longitude |-> Coordinates(card)[2],
           id |-> Md5Id(common, location, date)]

\* The fields validate_sighting requires.
required == {"species_common_name", "location", "date"}

\* Mutant: the observer is treated as a required field too.
validate_sighting_observer(sighting) ==
  IF sighting = <<>> THEN FALSE
  ELSE \A field \in required \cup {"observer"} :
         /\ field \in DOMAIN sighting
         /\ sighting[field] # ""
         /\ sighting[field] # Unknown

\* sighting is None, or a mapping from field names to values.  sighting.get
\* of a missing field is None, which is falsy like the empty text.
validate_sighting(sighting) ==
  IF sighting = <<>> THEN FALSE
  ELSE \A field \in required :
         /\ field \in DOMAIN sighting
         /\ sighting[field] # ""
         /\ sighting[field] # Unknown

\* Mutant: no metadata block around an empty list of sightings.
create_output_json_bare(sightings, status, error_message, now) ==
  IF sightings = <<>>
    THEN [sightings |-> sightings]
    ELSE [metadata |-> [location_code |-> "SN35466",
                        location_name |-> "eBird Alert Location",
                        last_updated |-> now,
                        scrape_status |-> status,
                        total_sightings |-> Len(sightings),
                        error_message |-> error_message],
          sightings |-> sightings]

\* The envelope; now is datetime.now(timezone.utc) at the call.
create_output_json(sightings, status, error_message, now) ==
  [metadata |-> [location_code |-> "SN35466",
                 location_name |-> "eBird Alert Location",
                 last_updated |-> now,
                 scrape_status |-> status,
                 total_sightings |-> Len(sightings),
                 error_message |-> error_message],
   sightings |-> sightings]

(***************************************************************************)
(* login(page).  The inputs are what the page answers during the call.     *)
(***************************************************************************)
\* What the page answers to one call of login.
LoginInputs ==
  [formAppears : BOOLEAN,    \* wait_for_selector returns (line 33)
   userFound : BOOLEAN,      \* query_selector finds the identity input
   passFound : BOOLEAN,      \* query_selector finds the password input
   fillOk : BOOLEAN,         \* both fill() calls return
   submitFound : BOOLEAN,    \* query_selector finds the submit control
   clickOk : BOOLEAN,        \* click() returns
   idleOk : BOOLEAN]         \* wait_for_load_state returns (line 48)

\* Whether login gets as far as a completed click on the submit control.
Activated(in) ==
  /\ in.formAppears
  /\ in.userFound /\ in.passFound
  /\ in.fillOk
  /\ in.submitFound
  /\ in.clickOk

\* The value login returns: every exception inside is caught and yields False.
login(in) ==
  IF ~in.formAppears THEN FALSE
  ELSE IF in.userFound /\ in.passFound
    THEN IF ~in.fillOk THEN FALSE
         ELSE IF in.submitFound
           THEN IF in.clickOk /\ in.idleOk THEN TRUE ELSE FALSE
           ELSE FALSE
    ELSE FALSE

\* The calls login makes on the page, in order, for the given answers; the
\* two fill() calls of lines 41-42 are one entry.
LoginCalls(in) ==
  <<"wait_form">> \o
  (IF ~in.formAppears THEN <<>>
   ELSE <<"query_user", "query_pass">> \o
        (IF ~(in.userFound /\ in.passFound) THEN <<>>
         ELSE <<"fill">> \o
              (IF ~in.fillOk THEN <<>>
               ELSE <<"query_submit">> \o
                    (IF ~in.submitFound THEN <<>>
                     ELSE <<"click">> \o
                          (IF ~in.clickOk THEN <<>> ELSE <<"wait_idle">>)))))

(***************************************************************************)
(* Faults.  An exception is the step that raised it and the attempt of     *)
(* scrape_alerts it was raised in; str(e) depends on the step.             *)
(***************************************************************************)
Fault(step, att) == [step |-> step, attempt |-> att]

\* The steps of an attempt of scrape_alerts that can raise into its handler.
AttemptSteps ==
  {"goto", "login", "goto_again", "networkidle", "screenshot", "query_cards"}

\* str(e)
Str(e) ==
  CASE e.step = "login" -> "Login failed"
    [] e.step \in {"goto", "goto_again"} -> "Page.goto: Timeout 30000ms exceeded."
    [] e.step = "networkidle" -> "Page.wait_for_load_state: Timeout 30000ms exceeded."
    [] e.step = "screenshot" -> "Page.screenshot: Timeout 30000ms exceeded."
    [] e.step = "query_cards" -> "Page.query_selector_all: Target closed"
    [] e.step = "makedirs" -> "[Errno 13] Permission denied: 'data'"
    [] e.step = "open" -> "[Errno 13] Permission denied: 'birds.json'"
    [] e.step = "dump" -> "[Errno 28] No space left on device"
    [] OTHER -> "BrowserType.launch: Executable doesn't exist"

(***************************************************************************)
(* The cards and the secrets the runs of the model draw from.              *)
(***************************************************************************)
\* "1.5", "-2.25", "abc"
Lat15 == <<"1", ".", "5">>

Lng225 == <<"-", "2", ".", "2", "5">>

Abc == <<"a", "b", "c">>

\* "maps?q=3.5,-4.5" and a map link without coordinates, "maps?z=3"
MapQ == <<"m", "a", "p", "s", "?", "q", "=", "3", ".", "5", ",", "-", "4", ".", "5">>

MapNone == <<"m", "a", "p", "s", "?", "z", "=", "3">>

\* A card with the given answers and no other element.
Card(species, location, date, lat, lng, map, raises) ==
  [species |-> species, scientific |-> None, location |-> location,
   date |-> date, time |-> None, observer |-> None, count |-> None,
   rarity |-> Some(" RARE "), checklist |-> Some("/checklist/S1"),
   lat |-> lat, lng |-> lng, map |-> map, raises |-> raises]

HeronCard ==
  Card(Some("Heron"), Some("Pond"), Some(" 1 May "), Some(Lat15), Some(Lng225), None, FALSE)

EgretCard ==
  Card(Some("Egret"), Some("Pond"), Some("1 May"), None, None, Some(MapQ), FALSE)

NoLocationCard ==
  Card(Some("Heron"), None, Some("1 May"), None, None, None, FALSE)

BlankDateCard ==
  Card(Some("Heron"), Some("Pond"), Some(" "), None, None, Some(MapNone), FALSE)

RaisingCard ==
  Card(Some("Heron"), Some("Pond"), Some("1 May"), None, None, None, TRUE)

BadLatCard ==
  Card(Some("Egret"), Some("Pond"), Some("1 May"), Some(Abc), Some(Lng225), None, FALSE)

NoSpeciesCard ==
  Card(None, Some("Pond"), Some("1 May"), None, None, None, FALSE)

CardPool ==
  {HeronCard, EgretCard, NoLocationCard, BlankDateCard, RaisingCard, BadLatCard,
   NoSpeciesCard}

\* The lists of cards query_selector_all can hand back.
CardSeqs == UNION {[1..n -> CardPool] : n \in 0..MaxCards}

\* os.environ.get of a secret: unset, empty, or set.
Secrets == {None, Some(""), Some("secret")}

(***************************************************************************)
(* The state of one run of main().                                         *)
(***************************************************************************)
VARIABLES
  pc,            \* the position of the run
  playwright,    \* the driver of line 251: "none", "started" or "stopped"
  username,      \* os.environ.get("EBIRD_USERNAME")
  password,      \* os.environ.get("EBIRD_PASSWORD")
  browser,       \* "none", "open", or "closed" once browser.close() returned
  context,       \* "none", "open", or "closed" once context.close() returned
  page,          \* "none" or "open"
  attempt,       \* the loop variable of scrape_alerts
  exc,           \* the exception in flight: None or Some(fault)
  handled,       \* the exception main's handler caught (e of line 282)
  cards,         \* observation_cards of the current attempt
  idx,           \* the position of the for loop over the cards
  sightings,     \* the list the attempt accumulates / main receives
  output,        \* the envelope main builds in its try block
  error_output,  \* the envelope main builds in its handler
  file,          \* the output file
  clock,         \* the time datetime.now returns next
  sleeps,        \* the number of asyncio.sleep(5) calls made
  steps,         \* the steps the current attempt has completed, in order,
                 \* with the outcome of the redirect test of line 175
  answers,       \* what the page answered to login in this attempt, if called
  built,         \* the envelopes create_output_json has built, in order
  writes,        \* the envelopes json.dump has written in full, in order
  ended,         \* how the run ended: "no", "config", "returned", "raised"
  fnArg,         \* the argument of a function applied on its own
  fnRes          \* its result

vars ==
  <<pc, playwright, username, password, browser, context, page, attempt, exc, handled,
    cards, idx, sightings, output, error_output, file, clock, sleeps, steps,
    answers, built, writes, ended, fnArg, fnRes>>

envVars == <<username, password, fnArg, fnRes>>

\* What every step but login and the handler of an attempt leaves alone.
envAnswers == <<envVars, answers>>

sessionVars == <<playwright, browser, context, page>>

loopVars == <<cards, idx, sightings>>

outVars == <<output, error_output, file, clock, built, writes>>

\* The output file: absent, cut short by a failed json.dump, or an envelope.
Absent == [state |-> "absent"]

Partial == [state |-> "partial"]

Written(envelope) == [state |-> "written", content |-> envelope]

\* The envelope an earlier run left behind.
Previous ==
  Written(create_output_json(<<>>, "warning", Some("No sightings found"), 0))

Init ==
  /\ pc = "start"
  /\ username \in Secrets
  /\ password \in Secrets
  /\ playwright = "none"
  /\ browser = "none" /\ context = "none" /\ page = "none"
  /\ attempt = 0
  /\ exc = None /\ handled = None
  /\ cards = <<>> /\ idx = 1 /\ sightings = <<>>
  /\ output = None /\ error_output = None
  /\ file \in {Absent, Previous}
  /\ clock = 1
  /\ sleeps = 0
  /\ steps = <<>>
  /\ answers = None
  /\ built = <<>> /\ writes = <<>>
  /\ ended = "no"
  /\ fnArg = None /\ fnRes = None

(***************************************************************************)
(* main(), lines 242-261: the configuration check and the acquisition of   *)
(* the session.  Nothing here is inside main's try block.                  *)
(***************************************************************************)
\* The test of line 247 with "and" for "or": a mutant.
SecretsMissing_and(u, p) ==
  /\ IsNone(u) \/ The(u) = ""
  /\ IsNone(p) \/ The(p) = ""

\* not os.environ.get("EBIRD_USERNAME") or not os.environ.get("EBIRD_PASSWORD")
SecretsMissing(u, p) ==
  \/ IsNone(u) \/ The(u) = ""
  \/ IsNone(p) \/ The(p) = ""

\* An exception raised between line 251 and line 263: no handler and no
\* finally block of main is around it, it leaves through the with statement.
Escape(step) ==
  /\ exc' = Some(Fault(step, attempt))
  /\ pc' = "exit_with"

CheckSecrets ==
  /\ pc = "start"
  /\ IF SecretsMissing(username, password)
       THEN pc' = "done" /\ ended' = "config"
       ELSE pc' = "enter_with" /\ ended' = ended
  /\ UNCHANGED <<envAnswers, sessionVars, attempt, exc, handled, loopVars, outVars,
                 sleeps, steps>>

\* Line 251: async_playwright() starts the driver.
EnterPlaywright ==
  /\ pc = "enter_with"
  /\ playwright' = "started"
  /\ pc' = "launch"
  /\ UNCHANGED <<envAnswers, browser, context, page, attempt, exc, handled,
                 loopVars, outVars, sleeps, steps, ended>>

Launch ==
  /\ pc = "launch"
  /\ \/ browser' = "open" /\ pc' = "new_context" /\ UNCHANGED exc
     \/ Escape("launch") /\ UNCHANGED browser
  /\ UNCHANGED <<envAnswers, playwright, context, page, attempt, handled, loopVars,
                 outVars, sleeps, steps, ended>>

NewContext ==
  /\ pc = "new_context"
  /\ \/ context' = "open" /\ pc' = "new_page" /\ UNCHANGED exc
     \/ Escape("new_context") /\ UNCHANGED context
  /\ UNCHANGED <<envAnswers, playwright, browser, page, attempt, handled, loopVars,
                 outVars, sleeps, steps, ended>>

NewPage ==
  /\ pc = "new_page"
  /\ \/ page' = "open" /\ pc' = "goto" /\ UNCHANGED exc
     \/ Escape("new_page") /\ UNCHANGED page
  /\ UNCHANGED <<envAnswers, playwright, browser, context, attempt, handled,
                 loopVars, outVars, sleeps, steps, ended>>

(***************************************************************************)
(* scrape_alerts(page), lines 166-224.  The try block of line 169 covers   *)
(* every step of an attempt, the handler of the content wait included.     *)
(***************************************************************************)
\* An exception raised by a step of the attempt: to the handler of line 218.
RaiseInAttempt(step) ==
  /\ exc' = Some(Fault(step, attempt))
  /\ pc' = "attempt_except"

\* Mutant: login is called whatever the test of line 175 says.
Goto_login_always ==
  /\ pc = "goto"
  /\ \/ /\ \E redirected \in BOOLEAN :
             steps' = steps \o <<"goto", IF redirected THEN "redirected"
                                                       ELSE "not_redirected">>
        /\ pc' = "login"
        /\ UNCHANGED exc
     \/ RaiseInAttempt("goto") /\ UNCHANGED steps
  /\ UNCHANGED <<envAnswers, sessionVars, attempt, handled, loopVars, outVars,
                 sleeps, ended>>

\* Line 172, then the test of line 175 on the URL the navigation ended at.
Goto ==
  /\ pc = "goto"
  /\ \/ /\ \E redirected \in BOOLEAN :
             /\ steps' = steps \o <<"goto", IF redirected THEN "redirected"
                                                          ELSE "not_redirected">>
             /\ pc' = IF redirected THEN "login" ELSE "networkidle"
        /\ UNCHANGED exc
     \/ RaiseInAttempt("goto") /\ UNCHANGED steps
  /\ UNCHANGED <<envAnswers, sessionVars, attempt, handled, loopVars, outVars,
                 sleeps, ended>>

\* Mutant: the result of login is not looked at.
Login_unchecked ==
  /\ pc = "login"
  /\ steps' = Append(steps, "login")
  /\ \E in \in LoginInputs : answers' = Some(in)
  /\ pc' = "goto_again"
  /\ UNCHANGED <<envVars, sessionVars, attempt, exc, handled, loopVars, outVars,
                 sleeps, ended>>

\* Lines 177-179: login, and "Login failed" raised when it returns False.
Login ==
  /\ pc = "login"
  /\ steps' = Append(steps, "login")
  /\ \E in \in LoginInputs :
       /\ answers' = Some(in)
       /\ IF login(in)
            THEN pc' = "goto_again" /\ UNCHANGED exc
            ELSE RaiseInAttempt("login")
  /\ UNCHANGED <<envVars, sessionVars, attempt, handled, loopVars, outVars,
                 sleeps, ended>>

\* Line 182.
GotoAgain ==
  /\ pc = "goto_again"
  /\ \/ steps' = Append(steps, "goto") /\ pc' = "networkidle" /\ UNCHANGED exc
     \/ RaiseInAttempt("goto_again") /\ UNCHANGED steps
  /\ UNCHANGED <<envAnswers, sessionVars, attempt, handled, loopVars, outVars,
                 sleeps, ended>>

\* Line 185.
NetworkIdle ==
  /\ pc = "networkidle"
  /\ \/ steps' = Append(steps, "networkidle") /\ pc' = "wait_content"
        /\ UNCHANGED exc
     \/ RaiseInAttempt("networkidle") /\ UNCHANGED steps
  /\ UNCHANGED <<envAnswers, sessionVars, attempt, handled, loopVars, outVars,
                 sleeps, ended>>

\* Mutant: no handler around the wait for a content marker, its timeout goes
\* to the handler of the attempt.
WaitContent_raises ==
  /\ pc = "wait_content"
  /\ \/ steps' = Append(steps, "wait_content") /\ pc' = "query_cards"
        /\ UNCHANGED exc
     \/ steps' = Append(steps, "wait_content_timeout")
        /\ RaiseInAttempt("wait_content")
  /\ UNCHANGED <<envAnswers, sessionVars, attempt, handled, loopVars, outVars,
                 sleeps, ended>>

\* Lines 188-193: the wait for a content marker; whatever it raises is
\* caught by the bare except of line 193.
WaitContent ==
  /\ pc = "wait_content"
  /\ \/ steps' = Append(steps, "wait_content") /\ pc' = "query_cards"
     \/ steps' = Append(steps, "wait_content_timeout") /\ pc' = "screenshot"
  /\ UNCHANGED <<envAnswers, sessionVars, attempt, exc, handled, loopVars, outVars,
                 sleeps, ended>>

\* Lines 194-198: the handler of the content wait.  page.screenshot is
\* awaited inside the try block of line 169: what it raises goes to line 218.
Screenshot ==
  /\ pc = "screenshot"
  /\ \/ /\ steps' = Append(steps, "screenshot")
        /\ sightings' = <<>>
        /\ pc' = "build"
        /\ UNCHANGED exc
     \/ RaiseInAttempt("screenshot") /\ UNCHANGED <<steps, sightings>>
  /\ UNCHANGED <<envAnswers, sessionVars, attempt, handled, cards, idx, outVars,
                 sleeps, ended>>

\* Lines 201-206.
QueryCards ==
  /\ pc = "query_cards"
  /\ \/ /\ steps' = Append(steps, "query_cards")
        /\ cards' \in CardSeqs
        /\ idx' = 1
        /\ sightings' = <<>>
        /\ pc' = "extract"
        /\ UNCHANGED exc
     \/ RaiseInAttempt("query_cards") /\ UNCHANGED <<steps, loopVars>>
  /\ UNCHANGED <<envAnswers, sessionVars, attempt, handled, outVars, sleeps, ended>>

\* Mutant: a sighting whose id is already in the list is merged away.
ExtractCard_dedup ==
  /\ pc = "extract"
  /\ idx <= Len(cards)
  /\ LET sighting == extract_sighting_data(cards[idx])
     IN sightings' = IF /\ sighting # None
                        /\ validate_sighting(sighting)
                        /\ \A i \in 1..Len(sightings) : sightings[i].id # sighting.id
                       THEN Append(sightings, sighting)
                       ELSE sightings
  /\ idx' = idx + 1
  /\ UNCHANGED <<pc, envAnswers, sessionVars, attempt, exc, handled, cards, outVars,
                 sleeps, steps, ended>>

\* Mutant: a card without a record ends the loop.
ExtractCard_break ==
  /\ pc = "extract"
  /\ idx <= Len(cards)
  /\ LET sighting == extract_sighting_data(cards[idx])
     IN IF sighting = None
          THEN idx' = Len(cards) + 1 /\ sightings' = sightings
          ELSE /\ idx' = idx + 1
               /\ sightings' = IF validate_sighting(sighting)
                                 THEN Append(sightings, sighting)
                                 ELSE sightings
  /\ UNCHANGED <<pc, envAnswers, sessionVars, attempt, exc, handled, cards, outVars,
                 sleeps, steps, ended>>

\* Lines 210-214: one turn of the for loop.
ExtractCard ==
  /\ pc = "extract"
  /\ idx <= Len(cards)
  /\ LET sighting == extract_sighting_data(cards[idx])
     IN sightings' = IF sighting # None /\ validate_sighting(sighting)
                       THEN Append(sightings, sighting)
                       ELSE sightings
  /\ idx' = idx + 1
  /\ UNCHANGED <<pc, envAnswers, sessionVars, attempt, exc, handled, cards, outVars,
                 sleeps, steps, ended>>

\* Line 216.
ReturnSightings ==
  /\ pc = "extract"
  /\ idx > Len(cards)
  /\ pc' = "build"
  /\ UNCHANGED <<envAnswers, sessionVars, attempt, exc, handled, loopVars, outVars,
                 sleeps, steps, ended>>

\* Mutant: the test of line 220 is off by one, so the loop runs out and
\* line 224 returns the empty list instead of the last fault.
AttemptExcept_swallow ==
  /\ pc = "attempt_except"
  /\ IF attempt = max_retries - 1
       THEN /\ pc' = "build"
            /\ sightings' = <<>>
            /\ exc' = None
            /\ UNCHANGED <<attempt, sleeps, steps>>
       ELSE /\ sleeps' = sleeps + 1
            /\ attempt' = attempt + 1
            /\ steps' = <<>>
            /\ exc' = None
            /\ pc' = "goto"
            /\ UNCHANGED sightings
  /\ answers' = None
  /\ UNCHANGED <<envVars, sessionVars, handled, cards, idx, outVars, ended>>

\* Mutant: the pause comes before the test of line 220.
AttemptExcept_pause_first ==
  /\ pc = "attempt_except"
  /\ sleeps' = sleeps + 1
  /\ IF attempt = max_retries - 1
       THEN /\ pc' = "main_except"
            /\ UNCHANGED <<attempt, steps, exc>>
       ELSE /\ attempt' = attempt + 1
            /\ steps' = <<>>
            /\ exc' = None
            /\ pc' = "goto"
  /\ answers' = None
  /\ UNCHANGED <<envVars, sessionVars, handled, loopVars, outVars, ended>>

\* Lines 218-222: the handler of an attempt: re-raise on the last attempt,
\* else sleep and start the next attempt.  The attempt's call of login, if
\* there was one, is over either way.
AttemptExcept ==
  /\ pc = "attempt_except"
  /\ IF attempt = max_retries - 1
       THEN /\ pc' = "main_except"
            /\ UNCHANGED <<attempt, sleeps, steps, exc>>
       ELSE /\ sleeps' = sleeps + 1
            /\ attempt' = attempt + 1
            /\ steps' = <<>>
            /\ exc' = None
            /\ pc' = "goto"
  /\ answers' = None
  /\ UNCHANGED <<envVars, sessionVars, handled, loopVars, outVars, ended>>

(***************************************************************************)
(* main(), lines 263-300: the try block, its handler and the finally       *)
(* block.                                                                  *)
(***************************************************************************)
\* An exception raised in main's try block: to the handler of line 282.
RaiseInTry(step) ==
  /\ exc' = Some(Fault(step, attempt))
  /\ pc' = "main_except"

\* An exception raised inside the handler of line 282: the finally block
\* runs and the exception leaves main.
RaiseInHandler(step) ==
  /\ exc' = Some(Fault(step, attempt))
  /\ pc' = "finally"

\* Mutant: the status is "success" whatever scrape_alerts returned.
Build_success_always ==
  /\ pc = "build"
  /\ output' = create_output_json(sightings, "success", None, clock)
  /\ built' = Append(built, output')
  /\ clock' = clock + 1
  /\ pc' = "makedirs"
  /\ UNCHANGED <<envAnswers, sessionVars, attempt, exc, handled, loopVars,
                 error_output, file, writes, sleeps, steps, ended>>

\* Lines 266-271.
Build ==
  /\ pc = "build"
  /\ output' = IF sightings # <<>>
                 THEN create_output_json(sightings, "success", None, clock)
                 ELSE create_output_json(<<>>, "warning",
                                         Some("No sightings found"), clock)
  /\ built' = Append(built, output')
  /\ clock' = clock + 1
  /\ pc' = "makedirs"
  /\ UNCHANGED <<envAnswers, sessionVars, attempt, exc, handled, loopVars,
                 error_output, file, writes, sleeps, steps, ended>>

\* Line 274.
Makedirs ==
  /\ pc = "makedirs"
  /\ \/ pc' = "write" /\ UNCHANGED exc
     \/ RaiseInTry("makedirs")
  /\ UNCHANGED <<envAnswers, sessionVars, attempt, handled, loopVars, outVars,
                 sleeps, steps, ended>>

\* Lines 277-278: open(..., "w") raises and leaves the file as it was, or
\* truncates it; json.dump then writes the envelope or raises part-way.
Write ==
  /\ pc = "write"
  /\ \/ /\ file' = Written(output)
        /\ writes' = Append(writes, output)
        /\ pc' = "finally"
        /\ UNCHANGED exc
     \/ RaiseInTry("open") /\ UNCHANGED <<file, writes>>
     \/ RaiseInTry("dump") /\ file' = Partial /\ UNCHANGED writes
  /\ UNCHANGED <<envAnswers, sessionVars, attempt, handled, loopVars, output,
                 error_output, clock, built, sleeps, steps, ended>>

\* Lines 282-289.
MainExcept ==
  /\ pc = "main_except"
  /\ handled' = exc
  /\ exc' = None
  /\ error_output' = create_output_json(<<>>, "error", Some(Str(The(exc))), clock)
  /\ built' = Append(built, error_output')
  /\ clock' = clock + 1
  /\ pc' = "makedirs_err"
  /\ UNCHANGED <<envAnswers, sessionVars, attempt, loopVars, output, file, writes,
                 sleeps, steps, ended>>

\* Line 291.
MakedirsErr ==
  /\ pc = "makedirs_err"
  /\ \/ pc' = "write_err" /\ UNCHANGED exc
     \/ RaiseInHandler("makedirs")
  /\ UNCHANGED <<envAnswers, sessionVars, attempt, handled, loopVars, outVars,
                 sleeps, steps, ended>>

\* Lines 292-293.
WriteErr ==
  /\ pc = "write_err"
  /\ \/ /\ file' = Written(error_output)
        /\ writes' = Append(writes, error_output)
        /\ pc' = "finally"
        /\ UNCHANGED exc
     \/ RaiseInHandler("open") /\ UNCHANGED <<file, writes>>
     \/ RaiseInHandler("dump") /\ file' = Partial /\ UNCHANGED writes
  /\ UNCHANGED <<envAnswers, sessionVars, attempt, handled, loopVars, output,
                 error_output, clock, built, sleeps, steps, ended>>

\* Lines 297-300.
Finally ==
  /\ pc = "finally"
  /\ context' = "closed"
  /\ browser' = "closed"
  /\ pc' = "exit_with"
  /\ UNCHANGED <<envAnswers, playwright, page, attempt, exc, handled, loopVars,
                 outVars, sleeps, steps, ended>>

\* The end of the with statement of line 251: the driver is stopped on
\* every way out, and the exception in flight, if any, leaves main.  The
\* driver takes down what it launched; close() of a browser or context that
\* main left open is not called by this.
ExitPlaywright ==
  /\ pc = "exit_with"
  /\ playwright' = "stopped"
  /\ ended' = IF exc = None THEN "returned" ELSE "raised"
  /\ pc' = "done"
  /\ UNCHANGED <<envAnswers, browser, context, page, attempt, exc, handled,
                 loopVars, outVars, sleeps, steps>>

Next ==
  \/ CheckSecrets
  \/ EnterPlaywright
  \/ Launch
  \/ NewContext
  \/ NewPage
  \/ Goto
  \/ Login
  \/ GotoAgain
  \/ NetworkIdle
  \/ WaitContent
  \/ Screenshot
  \/ QueryCards
  \/ ExtractCard
  \/ ReturnSightings
  \/ AttemptExcept
  \/ Build
  \/ Makedirs
  \/ Write
  \/ MainExcept
  \/ MakedirsErr
  \/ WriteErr
  \/ Finally
  \/ ExitPlaywright

Spec == Init /\ [][Next]_vars

(***************************************************************************)
(* Properties of a run.                                                    *)
(***************************************************************************)
Range(seq) == {seq[i] : i \in 1..Len(seq)}

Statuses == {"success", "warning", "error"}

\* The current attempt got its list of cards from the page.
Enumerated == "query_cards" \in Range(steps)

\* The content wait of the current attempt ran into its timeout.
ContentTimedOut == "wait_content_timeout" \in Range(steps)

\* main's handler caught a fault that scrape_alerts propagated.
ScrapeRaised == handled # None /\ The(handled).step \in AttemptSteps

\* The record extract_sighting_data gives for each card of the pool.
PoolRecord == [card \in CardPool |-> extract_sighting_data(card)]

\* Whether that record passes the Validator.
PoolPasses == [card \in CardPool |-> validate_sighting(PoolRecord[card])]

\* A card whose extracted record passes the Validator.
Passes(card) == PoolPasses[card]

\* The records of the cards that pass, in the order of the cards.
ValidRecords(cs) ==
  LET v == SelectSeq(cs, Passes)
  IN [i \in 1..Len(v) |-> PoolRecord[v[i]]]

\* C1: when a run is over and did not stop on a missing secret, the output
\* file holds an envelope this run wrote, with one of the three statuses.
C1_AlwaysAnEnvelope ==
  (pc = "done" /\ ended # "config") =>
     /\ file.state = "written"
     /\ writes # <<>>
     /\ file.content = writes[Len(writes)]
     /\ file.content.metadata.scrape_status \in Statuses

C3_BoundedRetry ==
  /\ [](attempt \in 0..(max_retries - 1))
  /\ [](pc = "attempt_except" =>
          exc # None /\ The(exc).attempt = attempt /\ The(exc).step \in AttemptSteps)
  /\ [][pc = "attempt_except" =>
          IF attempt + 1 < max_retries
            THEN pc' = "goto" /\ attempt' = attempt + 1
            ELSE /\ pc' = "main_except"
                 /\ exc' = exc
                 /\ The(exc').attempt = max_retries - 1]_vars
  /\ [][pc' = "goto" => pc \in {"new_page", "attempt_except"}]_vars
  /\ [][pc' = "build" => pc \in {"screenshot", "extract"} /\ exc' = None]_vars

\* C3 witness: the third attempt failed and its fault is in main's hands.
C3_Witness ==
  /\ pc = "main_except"
  /\ exc # None
  /\ The(exc).step = "login"
  /\ The(exc).attempt = max_retries - 1
  /\ sleeps = max_retries - 1

\* C4: once the content wait of an attempt has timed out, no fault reaches
\* the attempt's handler, the result is the empty list, and the envelope
\* main builds is a warning with no sightings and an error message.
C4_SoftEmptyWarning ==
  ContentTimedOut =>
     /\ pc # "attempt_except"
     /\ pc # "screenshot" => sightings = <<>>
     /\ built # <<>> =>
          /\ built[1].metadata.scrape_status = "warning"
          /\ built[1].metadata.total_sightings = 0
          /\ built[1].metadata.error_message # None
          /\ built[1].sightings = <<>>

\* C5: for a list of cards with at least one valid card, the envelope main
\* builds holds exactly the records of the valid cards in the order of the
\* cards, duplicates kept, as a success with their number as total; the
\* file holds that envelope once line 278 has written it.
C5_SightingsInOrder ==
  (Enumerated /\ \E i \in 1..Len(cards) : Passes(cards[i])) =>
     /\ built # <<>> =>
          /\ built[1].sightings = ValidRecords(cards)
          /\ built[1].metadata.scrape_status = "success"
          /\ built[1].metadata.total_sightings =
               Cardinality({i \in 1..Len(cards) : Passes(cards[i])})
     /\ (writes # <<>> /\ handled = None) =>
          /\ writes = <<built[1]>>
          /\ file = Written(built[1])

\* C5 witness: a written envelope with the same sighting twice.
C5_Witness ==
  /\ pc = "done"
  /\ cards = <<HeronCard, HeronCard>>
  /\ handled = None
  /\ file.state = "written"
  /\ Len(file.content.sightings) = 2

\* A secret that is unset or empty.
Blank(secret) == secret = None \/ secret = Some("")

\* C6: with a secret unset or empty the run goes from its start straight to
\* its end: no driver, no browser, no navigation, no envelope, and no step
\* changes the output file.
C6_ConfigFault ==
  /\ []((Blank(username) \/ Blank(password)) =>
          /\ pc \in {"start", "done"}
          /\ playwright = "none" /\ browser = "none"
          /\ context = "none" /\ page = "none"
          /\ steps = <<>> /\ attempt = 0
          /\ built = <<>> /\ writes = <<>>
          /\ pc = "done" => ended = "config")
  /\ [][(Blank(username) \/ Blank(password)) => file' = file]_vars

\* C6 witness: a run ended by an empty password, the earlier file untouched.
C6_Witness ==
  /\ pc = "done"
  /\ ended = "config"
  /\ username = Some("secret")
  /\ password = Some("")
  /\ file = Previous

\* C7: a run in which scrape_alerts propagated a fault to main ends with the
\* output file holding an envelope with no sightings, status "error", total
\* 0 and the fault's description as message, and with the session closed.
C7_ErrorEnvelope ==
  (pc = "done" /\ ScrapeRaised) =>
     /\ file.state = "written"
     /\ file.content.sightings = <<>>
     /\ file.content.metadata.scrape_status = "error"
     /\ file.content.metadata.total_sightings = 0
     /\ file.content.metadata.error_message = Some(Str(The(handled)))
     /\ browser = "closed" /\ context = "closed"

\* A card on which the extraction raises.
CardFaults(card) ==
  card.raises \/ AttrRaises(card.lat) \/ AttrRaises(card.lng)

\* C9: a card on which the extraction raises is skipped: the loop moves to
\* the next card with the list, the attempt and the exception state as they
\* were; and the attempt returns only after every card had its turn, with
\* one sighting per card that neither raised nor failed validation.
C9_CardFaultSkipped ==
  /\ [][(pc = "extract" /\ idx <= Len(cards) /\ CardFaults(cards[idx])) =>
          /\ pc' = "extract"
          /\ idx' = idx + 1
          /\ sightings' = sightings
          /\ attempt' = attempt
          /\ exc' = None]_vars
  /\ []((pc = "build" /\ Enumerated) =>
          /\ idx = Len(cards) + 1
          /\ Len(sightings) =
               Cardinality({i \in 1..Len(cards) :
                              ~CardFaults(cards[i]) /\ Passes(cards[i])}))

\* C9 witness: a raising card first, and the card after it in the result.
C9_Witness ==
  /\ pc = "build"
  /\ cards = <<RaisingCard, HeronCard>>
  /\ Len(sightings) = 1
  /\ sightings[1].species_common_name = "Heron"

(***************************************************************************)
(* The pure functions applied on their own: the argument is drawn from a   *)
(* bounded set, the function is applied once, no run of main is under way. *)
(***************************************************************************)
\* The state of the run while a function is applied on its own.
NoRun ==
  /\ playwright = "none"
  /\ username = None /\ password = None
  /\ browser = "none" /\ context = "none" /\ page = "none"
  /\ attempt = 0
  /\ exc = None /\ handled = None
  /\ cards = <<>> /\ idx = 1 /\ sightings = <<>>
  /\ output = None /\ error_output = None
  /\ file = Absent
  /\ clock = 1
  /\ sleeps = 0
  /\ steps = <<>>
  /\ answers = None
  /\ built = <<>> /\ writes = <<>>
  /\ ended = "no"

runVars ==
  <<playwright, username, password, browser, context, page, attempt, exc,
    handled, cards, idx, sightings, output, error_output, file, clock, sleeps,
    steps, answers, built, writes, ended>>

\* The texts a field of a candidate may hold.
FieldTexts == {"", Unknown, "unknown", "Heron"}

\* A field of a candidate: missing (None) or present with a text.
FieldChoices == {None} \cup {Some(t) : t \in FieldTexts}

\* The candidate with the given fields; a field given as None is missing.
Candidate(common, location, date, observer, latitude) ==
  LET given == [species_common_name |-> common, location |-> location,
                date |-> date, observer |-> observer]
      present == {k \in DOMAIN given : given[k] # None}
  IN [k \in present \cup {"latitude", "longitude"} |->
        IF k \in {"latitude", "longitude"} THEN latitude ELSE The(given[k])]

\* The candidates validate_sighting is applied to; <<>> is the absent one.
Candidates ==
  {<<>>} \cup
  {Candidate(c, l, d, o, lat) :
     c \in FieldChoices, l \in FieldChoices, d \in FieldChoices,
     o \in {None, Some(Unknown), Some("Ann")}, lat \in {None, Some(1500)}}

InitValidate ==
  /\ pc = "call"
  /\ NoRun
  /\ fnArg \in Candidates
  /\ fnRes = None

\* validate_sighting(fnArg)
ApplyValidate ==
  /\ pc = "call"
  /\ fnRes' = Some(validate_sighting(fnArg))
  /\ pc' = "return"
  /\ UNCHANGED <<runVars, fnArg>>

SpecValidate == InitValidate /\ [][ApplyValidate]_vars

\* C8: the verdict is a rejection exactly when the candidate is absent or
\* one of common name, location, date is missing, empty or "Unknown".
C8_ValidatorExact ==
  fnRes # None =>
     (The(fnRes) = FALSE) <=>
        \/ fnArg = <<>>
        \/ \E f \in {"species_common_name", "location", "date"} :
             \/ f \notin DOMAIN fnArg
             \/ fnArg[f] = ""
             \/ fnArg[f] = "Unknown"

\* C8 witness: accepted with an "Unknown" observer and null coordinates.
C8_Witness ==
  /\ fnRes = Some(TRUE)
  /\ "observer" \in DOMAIN fnArg
  /\ fnArg["observer"] = "Unknown"
  /\ fnArg["latitude"] = None

\* The cards extract_sighting_data is applied to.
ExtractCards ==
  [species : {None, Some("Heron")},
   scientific : {None},
   location : {None, Some("Pond")},
   date : {None, Some(" 1 May "), Some(" ")},
   time : {None},
   observer : {None, Some("Ann")},
   count : {None},
   rarity : {None, Some(" RARE ")},
   checklist : {None, Some("/checklist/S1"), Some("https://ebird.org/checklist/S2")},
   lat : {None, Some(<<>>), Some(Lat15), Some(Abc)},
   lng : {None, Some(<<>>), Some(Lng225), Some(Abc)},
   map : {None, Some(<<>>), Some(MapQ), Some(MapNone)},
   raises : BOOLEAN]

InitExtract ==
  /\ pc = "call"
  /\ NoRun
  /\ fnArg \in ExtractCards
  /\ fnRes = None

\* await extract_sighting_data(fnArg)
ApplyExtract ==
  /\ pc = "call"
  /\ fnRes' = Some(extract_sighting_data(fnArg))
  /\ pc' = "return"
  /\ UNCHANGED <<runVars, fnArg>>

SpecExtract == InitExtract /\ [][ApplyExtract]_vars

\* An attribute that is there with a non-empty value.
HasAttr(attr) == attr # None /\ The(attr) # <<>>

\* C10: the coordinates of a record are those of data-lat and data-lng when
\* both are there, otherwise those of the map link when its URL matches, and
\* both null when there is no attribute and no match.
C10_CoordinatePriority ==
  (fnRes # None /\ The(fnRes) # None) =>
     LET r == The(fnRes)
         both == HasAttr(fnArg.lat) /\ HasAttr(fnArg.lng)
         neither == ~HasAttr(fnArg.lat) /\ ~HasAttr(fnArg.lng)
         link == IF fnArg.map = None THEN None
                 ELSE parse_coordinates_from_url(fnArg.map)
     IN /\ both =>
             /\ r.latitude = Some(Float(The(fnArg.lat)))
             /\ r.longitude = Some(Float(The(fnArg.lng)))
        /\ (~both /\ link # None) =>
             /\ r.latitude = Some(The(link)[1])
             /\ r.longitude = Some(The(link)[2])
        /\ (neither /\ link = None) =>
             r.latitude = None /\ r.longitude = None

\* A card on which the species selector finds an element and every other
\* lookup of lines 81-126 comes back empty.
OnlySpecies(card) ==
  /\ card.species # None
  /\ \A k \in {"scientific", "location", "date", "time", "observer", "count",
                "rarity", "checklist", "map"} : card[k] = None
  /\ ~HasAttr(card.lat) /\ ~HasAttr(card.lng)
  /\ ~card.raises

\* C11: for a card on which only the species selector matches, the record
\* carries the species text and the default of every other field: scientific
\* name, date and time empty, location and observer "Unknown", count "1",
\* rarity_level "notable", checklist_url empty, latitude and longitude null;
\* and validate_sighting rejects it.
C11_OnlySpeciesDefaults ==
  (fnRes # None /\ OnlySpecies(fnArg)) =>
     /\ The(fnRes) # None
     /\ LET r == The(fnRes)
        IN /\ r.species_common_name = The(fnArg.species)
           /\ r.species_scientific_name = ""
           /\ r.location = "Unknown"
           /\ r.date = ""
           /\ r.time = ""
           /\ r.observer = "Unknown"
           /\ r.count = "1"
           /\ r.rarity_level = "notable"
           /\ r.checklist_url = ""
           /\ r.latitude = None /\ r.longitude = None
           /\ ~validate_sighting(r)

\* C11 witness: the record of a card with nothing but the species "Heron".
C11_Witness ==
  /\ fnRes # None
  /\ OnlySpecies(fnArg)
  /\ The(fnRes) # None
  /\ The(fnRes).species_common_name = "Heron"
  /\ The(fnRes).location = "Unknown"

(***************************************************************************)
(* create_output_json applied twice to the same arguments.  The clock may  *)
(* or may not have moved on between two readings of datetime.now.          *)
(***************************************************************************)
\* The records the lists of sightings are made of.
BuildRecords == {PoolRecord[HeronCard], PoolRecord[EgretCard]}

\* The arguments create_output_json is applied to.
BuildArgs ==
  [sightings : UNION {[1..n -> BuildRecords] : n \in 0..2},
   status : Statuses,
   error_message : {None, Some("No sightings found"), Some("Login failed")}]

InitBuild ==
  /\ pc = "call"
  /\ NoRun
  /\ fnArg \in BuildArgs
  /\ fnRes = <<>>

\* create_output_json(**fnArg); fnRes collects the envelopes returned.
ApplyBuild ==
  /\ pc = "call"
  /\ fnRes' = Append(fnRes, create_output_json(fnArg.sightings, fnArg.status,
                                               fnArg.error_message, clock))
  /\ clock' \in {clock, clock + 1}
  /\ pc' = IF Len(fnRes) = 1 THEN "return" ELSE "call"
  /\ UNCHANGED <<playwright, username, password, browser, context, page,
                 attempt, exc, handled, cards, idx, sightings, output,
                 error_output, file, sleeps, steps, answers, built, writes,
                 ended, fnArg>>

SpecBuild == InitBuild /\ [][ApplyBuild]_vars

\* The fields of the metadata block.
MetadataFields ==
  {"location_code", "location_name", "last_updated", "scrape_status",
   "total_sightings", "error_message"}

\* C12: two envelopes built from the same sightings, status and error message
\* are equal in every field except metadata.last_updated, and every envelope
\* built has the whole metadata block, around an empty list of sightings too.
C12_BuilderIdempotent ==
  /\ \A i \in 1..Len(fnRes) :
        /\ DOMAIN fnRes[i] = {"metadata", "sightings"}
        /\ DOMAIN fnRes[i].metadata = MetadataFields
  /\ Len(fnRes) = 2 =>
        /\ fnRes[1].sightings = fnRes[2].sightings
        /\ \A k \in MetadataFields \ {"last_updated"} :
              fnRes[1].metadata[k] = fnRes[2].metadata[k]

\* C12 witness: two envelopes around no sightings, built at different times.
C12_Witness ==
  /\ Len(fnRes) = 2
  /\ fnArg.sightings = <<>>
  /\ fnRes[1].metadata.last_updated # fnRes[2].metadata.last_updated
  /\ fnRes[1].metadata.total_sightings = 0

(***************************************************************************)
(* Properties of login inside an attempt.                                  *)
(***************************************************************************)
\* login found both inputs and the submit control and clicked the control.
FoundAndActivated(in) ==
  in.userFound /\ in.passFound /\ in.submitFound /\ in.clickOk

\* login returned False: "Login failed" of line 179 is in flight.
LoginFailed == exc # None /\ The(exc).step = "login"

\* No entry occurs twice.
NoRepeat(seq) ==
  \A i, j \in 1..Len(seq) : seq[i] = seq[j] => i = j

\* C13: in an attempt that called login, login reported success only if both
\* inputs and the submit control were found and the control was clicked; in
\* every other case it reported failure; it made none of its page calls
\* twice; and after a failure the attempt is in its handler with the fault
\* "Login failed", having done nothing but the first navigation and login.
C13_LoginHardFault ==
  answers # None =>
     LET in == The(answers)
     IN /\ ~LoginFailed => FoundAndActivated(in)
        /\ ~FoundAndActivated(in) => LoginFailed
        /\ NoRepeat(LoginCalls(in))
        /\ LoginFailed =>
             /\ pc = "attempt_except"
             /\ exc = Some(Fault("login", attempt))
             /\ steps = <<"goto", "redirected", "login">>
             /\ Str(The(exc)) = "Login failed"

\* C13 witness: login found no submit control and the attempt is aborted.
C13_Witness ==
  /\ answers # None
  /\ The(answers).userFound /\ The(answers).passFound
  /\ ~The(answers).submitFound
  /\ pc = "attempt_except"
  /\ LoginFailed

(***************************************************************************)
(* The order of the steps of an attempt.                                   *)
(***************************************************************************)
\* The complete attempts: with or without a redirect to the login page, and
\* ending in the enumeration of the cards or in the diagnostic snapshot.
AttemptOrders ==
  {head \o tail :
     head \in {<<"goto", "not_redirected">>,
               <<"goto", "redirected", "login", "goto">>},
     tail \in {<<"networkidle", "wait_content", "query_cards">>,
               <<"networkidle", "wait_content_timeout", "screenshot">>}}

\* seq is a beginning of full.
IsPrefix(seq, full) ==
  /\ Len(seq) <= Len(full)
  /\ \A i \in 1..Len(seq) : seq[i] = full[i]

\* How many entries of seq are x.
Count(seq, x) == Cardinality({i \in 1..Len(seq) : seq[i] = x})

\* C14: what an attempt has done so far is a beginning of: navigation, the
\* redirect test, then only after a redirect login and a second navigation,
\* then the network wait, the content wait and the enumeration.  login is
\* called at most once in an attempt and never without a redirect.
C14_StepOrder ==
  /\ \E full \in AttemptOrders : IsPrefix(steps, full)
  /\ Count(steps, "login") <= 1
  /\ "not_redirected" \in Range(steps) => "login" \notin Range(steps)

\* C14 witness: a redirected attempt that logged in and enumerated the cards.
C14_Witness ==
  steps = <<"goto", "redirected", "login", "goto", "networkidle",
            "wait_content", "query_cards">>

(***************************************************************************)
(* Timeouts of the steps of an attempt.                                    *)
(***************************************************************************)
\* A navigation, the login or the network wait of the attempt has failed;
\* a timeout of one of login's own waits makes login fail.
StepTimedOut ==
  exc # None /\ The(exc).step \in {"goto", "login", "goto_again", "networkidle"}

\* The fault in flight is with the handler of the attempt, or was re-raised
\* by it to main on the last attempt.
InRetryLoop ==
  \/ pc = "attempt_except"
  \/ pc = "main_except" /\ attempt = max_retries - 1

\* One of login's two waits (lines 33 and 48) timed out.
LoginWaitTimedOut ==
  /\ answers # None
  /\ \/ ~The(answers).formAppears
     \/ /\ LoginCalls(The(answers))[Len(LoginCalls(The(answers)))] = "wait_idle"
        /\ ~The(answers).idleOk

\* C15 as stated: a timeout of a navigation, of a login wait, of the network
\* wait or of the content wait makes the attempt fail into the retry loop;
\* an attempt whose content wait timed out hands no result to main.
C15_TimeoutFeedsRetry ==
  /\ StepTimedOut => InRetryLoop
  /\ LoginWaitTimedOut => (LoginFailed /\ InRetryLoop)
  /\ ContentTimedOut => pc # "build"

\* C15 amended: a timeout of a navigation, of a login wait or of the network
\* wait makes the attempt fail into the retry loop; a timeout of the content
\* wait does not: after the snapshot the attempt hands main the empty result
\* with no fault in flight, and only a fault of the snapshot itself is a
\* failure of such an attempt.
C15_TimeoutExceptContentWait ==
  /\ StepTimedOut => InRetryLoop
  /\ LoginWaitTimedOut => (LoginFailed /\ InRetryLoop)
  /\ (ContentTimedOut /\ "screenshot" \in Range(steps)) =>
        /\ pc # "attempt_except"
        /\ ~ScrapeRaised
        /\ sightings = <<>>
        /\ pc = "build" => exc = None
  /\ (ContentTimedOut /\ pc = "attempt_except") => The(exc).step = "screenshot"
  /\ (ContentTimedOut /\ ScrapeRaised) => The(handled).step = "screenshot"

\* C15 witness: the first attempt's content wait timed out and the attempt
\* has handed the empty result to main.
C15_Witness ==
  /\ ContentTimedOut
  /\ pc = "build"
  /\ attempt = 0
  /\ sleeps = 0
  /\ sightings = <<>>

(***************************************************************************)
(* The pauses between attempts.                                            *)
(***************************************************************************)
\* C16: there have been as many pauses as failed attempts that were followed
\* by another attempt, so none before the first attempt and max_retries - 1
\* in a run whose attempts all failed; a pause is made only by the handler
\* of a failed attempt that is not the last, once, and with the next attempt
\* following; none is made once an attempt has returned or the last failed.
C16_PauseBetweenAttempts ==
  /\ [](sleeps = attempt)
  /\ [](sleeps <= max_retries - 1)
  /\ [](ScrapeRaised => sleeps = max_retries - 1)
  /\ [][sleeps' # sleeps =>
          /\ pc = "attempt_except"
          /\ attempt < max_retries - 1
          /\ sleeps' = sleeps + 1
          /\ attempt' = attempt + 1
          /\ pc' = "goto"]_vars
  /\ [][(pc = "attempt_except" /\ attempt < max_retries - 1) =>
          sleeps' = sleeps + 1]_vars

\* C16 witness: all attempts failed, with a pause after the first and after
\* the second and none after the third.
C16_Witness ==
  /\ pc = "done"
  /\ ScrapeRaised
  /\ The(handled).attempt = max_retries - 1
  /\ sleeps = max_retries - 1

(***************************************************************************)
(* The envelopes of a run.                                                 *)
(***************************************************************************)
\* C17: a run never constructs or writes a second envelope, and a run that
\* got past the configuration check ends having constructed exactly one
\* envelope, written exactly that one, once, with the file holding it.
C17_OneEnvelope ==
  /\ Len(built) <= 1
  /\ Len(writes) <= 1
  /\ (pc = "done" /\ ended # "config") =>
        /\ Len(built) = 1
        /\ writes = built
        /\ file = Written(built[1])

\* The relations between the fields of one envelope.
Coherent(envelope) ==
  /\ envelope.metadata.total_sightings = Len(envelope.sightings)
  /\ envelope.metadata.scrape_status = "success" <=> envelope.sightings # <<>>
  /\ envelope.metadata.error_message = None
       <=> envelope.metadata.scrape_status = "success"
  /\ \A i \in 1..Len(envelope.sightings) : validate_sighting(envelope.sightings[i])

\* Every card of the page enumerated is one whose record is rejected or that
\* has no record.
AllCardsInvalid ==
  Enumerated /\ cards # <<>> /\ \A i \in 1..Len(cards) : ~Passes(cards[i])

\* C18: in every envelope main has built or written, and in the file, the
\* total is the length of the sightings, the status is "success" exactly
\* when there are sightings, the error message is null exactly when the
\* status is "success", and every sighting passes validate_sighting; the
\* envelope built for a page whose cards are all invalid has status
\* "warning".
C18_EnvelopeCoherent ==
  /\ \A i \in 1..Len(built) : Coherent(built[i])
  /\ \A i \in 1..Len(writes) : Coherent(writes[i])
  /\ file.state = "written" => Coherent(file.content)
  /\ (AllCardsInvalid /\ built # <<>>) =>
        /\ built[1].metadata.scrape_status = "warning"
        /\ built[1].sightings = <<>>

\* C18 witness: the envelope written for a page of two cards, both invalid.
C18_Witness ==
  /\ AllCardsInvalid
  /\ Len(cards) = 2
  /\ writes # <<>>
  /\ writes[1].metadata.scrape_status = "warning"
  /\ file = Written(writes[1])

\* C19: in every record extract_sighting_data returns, latitude and
\* longitude are both null or both set.
C19_CoordinatePair ==
  (fnRes # None /\ The(fnRes) # None) =>
     (The(fnRes).latitude = None <=> The(fnRes).longitude = None)

====
